---- MODULE Spec2Model ----
(***************************************************************************)
(* Model of src/src/my_package/pubmed.py: the PubMed pipeline              *)
(*   fetch_pubmed_data -> fetch_article_details ->                         *)
(*   create_publication_dataframe -> create_publication_markdown           *)
(* and the stand-alone helper parse_date_from_pubdate.                     *)
(*                                                                         *)
(* A Python str is a sequence of one-character strings, so that joining,   *)
(* splitting, stripping and the regular-expression substitution are        *)
(* computed character by character.  A Python dict is a function whose     *)
(* DOMAIN is its key set.  The vertical tab, the no-break space and the    *)
(* letter e-acute are written by their code point names (U+000B, U+00A0,   *)
(* U+00E9).                                                                *)
(***************************************************************************)
EXTENDS Integers, Sequences, FiniteSets, TLC

VARIABLES pc, id_list, records, df, i, ret, err, exported, dirExists, files,
          pubdate, date

vars == <<pc, id_list, records, df, i, ret, err, exported, dirExists, files,
          pubdate, date>>

pipelineVars == <<pc, id_list, records, df, i, ret, err, exported, dirExists, files>>

(* ------------------------------ bounds --------------------------------- *)

MaxRecords == 2

MaxAuthors == 2

MaxTitleLen == 3

(* --------------------------- Python values ----------------------------- *)

None == "None"

Unbound == [unbound |-> TRUE]

EmptyStr == <<>>

EmptyDict == [k \in {} |-> None]

Get(d, k, default) == IF k \in DOMAIN d THEN d[k] ELSE default

RECURSIVE Join(_, _)
Join(sep, parts) ==
    IF parts = <<>> THEN EmptyStr
    ELSE IF Len(parts) = 1 THEN parts[1]
    ELSE parts[1] \o sep \o Join(sep, Tail(parts))

IsPrefix(p, s) == Len(p) <= Len(s) /\ SubSeq(s, 1, Len(p)) = p

Drop(s, n) == SubSeq(s, n + 1, Len(s))

RECURSIVE SplitFrom(_, _, _)
SplitFrom(s, sep, cur) ==
    IF s = <<>> THEN <<cur>>
    ELSE IF IsPrefix(sep, s) THEN <<cur>> \o SplitFrom(Drop(s, Len(sep)), sep, <<>>)
    ELSE SplitFrom(Tail(s), sep, Append(cur, Head(s)))

Split(s, sep) == SplitFrom(s, sep, <<>>)

AsciiLetters ==
    {"a","b","c","d","e","f","g","h","i","j","k","l","m",
     "n","o","p","q","r","s","t","u","v","w","x","y","z",
     "A","B","C","D","E","F","G","H","I","J","K","L","M",
     "N","O","P","Q","R","S","T","U","V","W","X","Y","Z"}

AsciiDigits == {"0","1","2","3","4","5","6","7","8","9"}

Whitespace == {" ", "\t", "\n", "\r", "\f", "U+000B", "U+00A0"}

RECURSIVE LStrip(_)
LStrip(s) == IF s # <<>> /\ Head(s) \in Whitespace THEN LStrip(Tail(s)) ELSE s

RECURSIVE RStrip(_)
RStrip(s) ==
    IF s # <<>> /\ s[Len(s)] \in Whitespace THEN RStrip(SubSeq(s, 1, Len(s) - 1)) ELSE s

Strip(s) == RStrip(LStrip(s))

KeepsUnderscore(c) == c \in AsciiLetters \cup AsciiDigits \cup Whitespace \cup {"_"}

IsKept(c) == c \in AsciiLetters \cup AsciiDigits \cup Whitespace

Sanitize(s) == SelectSeq(s, IsKept)

(* ----------------------- parse_date_from_pubdate ----------------------- *)

NoDateFound == <<"N","o"," ","d","a","t","e"," ","f","o","u","n","d">>

DefaultMonthDay == <<"0","1">>

Hyphen == <<"-">>

parse_date_from_pubdate_swapped(pd) ==
    IF "Year" \in DOMAIN pd
    THEN pd["Year"] \o Hyphen \o Get(pd, "Day", DefaultMonthDay)
                    \o Hyphen \o Get(pd, "Month", DefaultMonthDay)
    ELSE NoDateFound

parse_date_from_pubdate(pd) ==
    IF "Year" \in DOMAIN pd
    THEN pd["Year"] \o Hyphen \o Get(pd, "Month", DefaultMonthDay)
                    \o Hyphen \o Get(pd, "Day", DefaultMonthDay)
    ELSE NoDateFound

Years == {<<"2","0","2","3">>, <<"1","9","9","9">>, <<"n","d">>}

Months == {<<"0","3">>, <<"J","a","n">>, <<"1","2">>}

Days == {<<"0","7">>, <<"3","1">>, <<"5">>}

Opt(key, values) == {EmptyDict} \cup {(key :> v) : v \in values}

PubDates ==
    {y @@ m @@ d : y \in Opt("Year", Years), m \in Opt("Month", Months),
                   d \in Opt("Day", Days)}

IdlePipeline ==
    /\ pc = "idle"
    /\ id_list = <<>>
    /\ records = <<>>
    /\ df = [columns |-> <<>>, rows |-> <<>>]
    /\ i = 0
    /\ ret = Unbound
    /\ err = None
    /\ exported = "pending"
    /\ dirExists = FALSE
    /\ files = EmptyDict

InitDate ==
    /\ IdlePipeline
    /\ pubdate \in PubDates
    /\ date = None

ParseDate ==
    /\ date = None
    /\ date' = parse_date_from_pubdate(pubdate)
    /\ UNCHANGED <<pubdate, pipelineVars>>

NextDate == ParseDate

SpecDate == InitDate /\ [][NextDate]_vars

(* C3 (as stated): with Year the result is Year-Month-Day with "01"       *)
(* defaults, and without Year it is the sentinel "no date found".         *)
C3_Original ==
    date # None =>
        IF "Year" \in DOMAIN pubdate
        THEN date = pubdate["Year"] \o <<"-">>
                    \o (IF "Month" \in DOMAIN pubdate THEN pubdate["Month"] ELSE <<"0","1">>)
                    \o <<"-">>
                    \o (IF "Day" \in DOMAIN pubdate THEN pubdate["Day"] ELSE <<"0","1">>)
        ELSE date = <<"n","o"," ","d","a","t","e"," ","f","o","u","n","d">>

(* C3 (amended): with Year the result is Year-Month-Day with "01"         *)
(* defaults; without Year, whatever Month and Day hold, the result is the *)
(* sentinel "No date found" with a capital N.                             *)
C3_DateFormat ==
    date # None =>
        IF "Year" \in DOMAIN pubdate
        THEN date = pubdate["Year"] \o <<"-">>
                    \o (IF "Month" \in DOMAIN pubdate THEN pubdate["Month"] ELSE <<"0","1">>)
                    \o <<"-">>
                    \o (IF "Day" \in DOMAIN pubdate THEN pubdate["Day"] ELSE <<"0","1">>)
        ELSE date = <<"N","o"," ","d","a","t","e"," ","f","o","u","n","d">>

C3_Witness ==
    /\ DOMAIN pubdate = {"Year"}
    /\ date # None
    /\ date = <<"2","0","2","3","-","0","1","-","0","1">>

(* ------------- create_publication_dataframe: one record -> row --------- *)

Range(s) == {s[k] : k \in DOMAIN s}

SetOrders(S) == {o \in [1..Cardinality(S) -> S] : Range(o) = S}

Columns == <<"PMID", "Title", "Abstract", "Authors", "Journal", "Keywords", "URL",
             "Affiliations">>

UrlPrefix ==
    <<"h","t","t","p","s",":","/","/","w","w","w",".","n","c","b","i",".","n","l","m",
      ".","n","i","h",".","g","o","v","/","p","u","b","m","e","d","/">>

Space == <<" ">>

CommaSpace == <<",", " ">>

SemicolonSpace == <<";", " ">>

AbstractOf_none_text(article) ==
    IF "Abstract" \in DOMAIN article /\ "AbstractText" \in DOMAIN article["Abstract"]
    THEN Join(Space, article["Abstract"]["AbstractText"])
    ELSE <<"N","o","n","e">>

AbstractOf(article) ==
    IF "Abstract" \in DOMAIN article /\ "AbstractText" \in DOMAIN article["Abstract"]
    THEN Join(Space, article["Abstract"]["AbstractText"])
    ELSE EmptyStr

AuthorName_forename_first(author) ==
    Get(author, "ForeName", EmptyStr) \o Space \o Get(author, "LastName", EmptyStr)

AuthorName(author) ==
    Get(author, "LastName", EmptyStr) \o Space \o Get(author, "ForeName", EmptyStr)

AuthorsOf(authorList) ==
    Join(CommaSpace, [k \in 1..Len(authorList) |-> AuthorName(authorList[k])])

HasAffiliation(author) ==
    "AffiliationInfo" \in DOMAIN author /\ author["AffiliationInfo"] # <<>>

RECURSIVE CollectAffiliations(_)
CollectAffiliations(authorList) ==
    IF authorList = <<>> THEN <<>>
    ELSE IF HasAffiliation(Head(authorList))
         THEN <<Head(authorList)["AffiliationInfo"][1]["Affiliation"]>>
              \o CollectAffiliations(Tail(authorList))
         ELSE CollectAffiliations(Tail(authorList))

AffiliationOrders_no_set(affiliations) == {affiliations}

AffiliationOrders(affiliations) == SetOrders(Range(affiliations))

KeywordsOf(medline) ==
    IF "MeshHeadingList" \in DOMAIN medline
    THEN Join(CommaSpace, [k \in 1..Len(medline["MeshHeadingList"]) |->
                              medline["MeshHeadingList"][k]["DescriptorName"]])
    ELSE EmptyStr

UrlOf(pmid) == UrlPrefix \o pmid

FirstMissingAuthorKey(authorList) ==
    IF \E k \in 1..Len(authorList) :
          HasAffiliation(authorList[k])
          /\ "Affiliation" \notin DOMAIN authorList[k]["AffiliationInfo"][1]
    THEN "Affiliation" ELSE None

FirstMissingHeadingKey(medline) ==
    IF /\ "MeshHeadingList" \in DOMAIN medline
       /\ \E k \in 1..Len(medline["MeshHeadingList"]) :
             "DescriptorName" \notin DOMAIN medline["MeshHeadingList"][k]
    THEN "DescriptorName" ELSE None

FirstMissingKey(record) ==
    IF "MedlineCitation" \notin DOMAIN record THEN "MedlineCitation"
    ELSE LET medline == record["MedlineCitation"] IN
      IF "PMID" \notin DOMAIN medline THEN "PMID"
      ELSE IF "Article" \notin DOMAIN medline THEN "Article"
      ELSE LET article == medline["Article"] IN
        IF "ArticleTitle" \notin DOMAIN article THEN "ArticleTitle"
        ELSE IF "AuthorList" \notin DOMAIN article THEN "AuthorList"
        ELSE IF FirstMissingAuthorKey(article["AuthorList"]) # None
             THEN FirstMissingAuthorKey(article["AuthorList"])
        ELSE IF "Journal" \notin DOMAIN article THEN "Journal"
        ELSE IF "Title" \notin DOMAIN article["Journal"] THEN "Title"
        ELSE FirstMissingHeadingKey(medline)

RowOf(record, affiliationOrder) ==
    LET medline == record["MedlineCitation"]
        article == medline["Article"]
    IN [PMID         |-> medline["PMID"],
        Title        |-> article["ArticleTitle"],
        Abstract     |-> AbstractOf(article),
        Authors      |-> AuthorsOf(article["AuthorList"]),
        Journal      |-> article["Journal"]["Title"],
        Keywords     |-> KeywordsOf(medline),
        URL          |-> UrlOf(medline["PMID"]),
        Affiliations |-> Join(SemicolonSpace, affiliationOrder)]

EmptyDataFrame == [columns |-> <<>>, rows |-> <<>>]

NewRowFrame(row) == [columns |-> Columns, rows |-> <<row>>]

Concat_replace(a, b) ==
    [columns |-> b.columns, rows |-> b.rows]

Concat(a, b) ==
    [columns |-> a.columns \o SelectSeq(b.columns, LAMBDA c : c \notin Range(a.columns)),
     rows    |-> a.rows \o b.rows]

(* ------------------------- files and rendering ------------------------- *)

Timestamps == {<<"2","0","2","6","1","1","0","1","1","2","0","0">>}

CsvExt == <<".","c","s","v">>

MdExt == <<".","m","d">>

ToCsv(d) ==
    [kind   |-> "csv",
     header |-> d.columns,
     data   |-> [k \in 1..Len(d.rows) |->
                    [c \in 1..Len(d.columns) |-> d.rows[k][d.columns[c]]]]]

WriteFile_keep_existing(fs, name, content) == fs @@ (name :> content)

WriteFile(fs, name, content) == (name :> content) @@ fs

MdFilename(title) == Sanitize(title) \o MdExt

AuthorLinks(authors) ==
    LET parts == Split(authors, CommaSpace) IN
    Join(<<"*","*",","," ","*","*">>,
         [k \in 1..Len(parts) |-> <<"[","[">> \o Sanitize(Strip(parts[k])) \o <<"]","]">>])

Blank == <<"\n","\n">>

MarkdownContent(row) ==
       <<"#"," ">> \o row["Title"] \o Blank
    \o <<"*","*","P","M","I","D",":","*","*"," ">> \o row["PMID"] \o Blank
    \o <<"*","*","J","o","u","r","n","a","l",":","*","*"," ">> \o row["Journal"] \o Blank
    \o <<"*","*","A","u","t","h","o","r","s",":","*","*"," ">>
       \o AuthorLinks(row["Authors"]) \o Blank
    \o <<"*","*","A","b","s","t","r","a","c","t",":","*","*","\n">> \o row["Abstract"] \o Blank
    \o <<"*","*","K","e","y","w","o","r","d","s",":","*","*"," ">> \o row["Keywords"] \o Blank
    \o <<"*","*","U","R","L",":","*","*"," ">> \o row["URL"] \o Blank
    \o <<"*","*","A","f","f","i","l","i","a","t","i","o","n","s",":","*","*"," ">>
       \o row["Affiliations"] \o Blank

MdFile(row) == [kind |-> "md", text |-> MarkdownContent(row)]

(* ------------------------- records of the endpoint --------------------- *)

JournalTitle == <<"B","u","r","n","s">>

MkArticle(title, abstractOpt, authorsOpt) ==
    ("ArticleTitle" :> title) @@ ("Journal" :> [Title |-> JournalTitle])
        @@ abstractOpt @@ authorsOpt

MkRecord(pmid, articleOpt, meshOpt) ==
    [MedlineCitation |-> ("PMID" :> pmid) @@ articleOpt @@ meshOpt]

UnivA == <<"U","n","i","v"," ","A">>

UnivB == <<"U","n","i","v"," ","B">>

UnivC == <<"U","n","i","v"," ","C">>

AuthorNames ==
    {[LastName |-> <<"D","o","e">>, ForeName |-> <<"J">>],
     [LastName |-> <<"R","o","e">>, ForeName |-> <<"A">>],
     [LastName |-> <<"D","o","e">>],
     [ForeName |-> <<"A">>]}

AffiliationOpts ==
    {EmptyDict,
     "AffiliationInfo" :> <<>>,
     "AffiliationInfo" :> <<[Affiliation |-> UnivA]>>,
     "AffiliationInfo" :> <<[Affiliation |-> UnivB], [Affiliation |-> UnivA]>>,
     "AffiliationInfo" :> <<[Affiliation |-> UnivC]>>}

AuthorPool == {n @@ a : n \in AuthorNames, a \in AffiliationOpts}

AuthorLists == UNION {[1..n -> AuthorPool] : n \in 0..MaxAuthors}

AbstractOpts ==
    {EmptyDict,
     "Abstract" :> EmptyDict,
     "Abstract" :> [AbstractText |-> <<<<"B","g">>, <<"E","n","d">>>>]}

MeshOpts ==
    {EmptyDict,
     "MeshHeadingList" :> <<[DescriptorName |-> <<"B","u","r","n","s">>],
                            [DescriptorName |-> <<"S","e","p","s","i","s">>]>>}

TitleA == <<"B","u","r","n"," ","P","a","t","i","e","n","t","s",":"," ","A"," ",
            "R","e","v","i","e","w","!">>

TitleB == <<"B","u","r","n"," ","P","a","t","i","e","n","t","s"," ","A"," ",
            "R","e","v","i","e","w">>

TitleC == <<"I","C","U","_","2">>

TransformRecords ==
    {MkRecord(<<"1">>, EmptyDict, EmptyDict)}
    \cup {MkRecord(<<"1">>, "Article" :> MkArticle(TitleA, ab, au), mh) :
             ab \in AbstractOpts,
             au \in {EmptyDict} \cup {"AuthorList" :> al : al \in AuthorLists},
             mh \in MeshOpts}

DoeJ == [LastName |-> <<"D","o","e">>, ForeName |-> <<"J">>,
         AffiliationInfo |-> <<[Affiliation |-> UnivA]>>]

RoeA == [LastName |-> <<"R","o","e">>, ForeName |-> <<"A">>,
         AffiliationInfo |-> <<[Affiliation |-> UnivA]>>]

PipelineTitles == {TitleA, TitleB, TitleC}

PipelineBodies == {"full", "bare", "anonymous"}

PipelineRecord(pmid, title, body) ==
    IF body = "full"
    THEN MkRecord(pmid,
                  "Article" :> MkArticle(title,
                      "Abstract" :> [AbstractText |-> <<<<"B","g">>>>],
                      "AuthorList" :> <<DoeJ, RoeA>>),
                  "MeshHeadingList" :> <<[DescriptorName |-> <<"B","u","r","n","s">>]>>)
    ELSE IF body = "bare"
    THEN MkRecord(pmid, "Article" :> MkArticle(title, EmptyDict, "AuthorList" :> <<>>),
                  EmptyDict)
    ELSE MkRecord(pmid, "Article" :> MkArticle(title, EmptyDict, EmptyDict), EmptyDict)

(* ----------------------------- the pipeline ---------------------------- *)

FetchPubmedData ==
    /\ pc = "search"
    /\ \/ /\ \E n \in 0..MaxRecords : id_list' \in [1..n -> {<<"1">>, <<"2">>}]
          /\ pc' = "fetch"
          /\ err' = err
       \/ /\ pc' = "raised"
          /\ err' = <<"EntrezError", "esearch">>
          /\ id_list' = id_list
    /\ UNCHANGED <<records, df, i, ret, exported, dirExists, files, pubdate, date>>

FetchArticleDetails ==
    /\ pc = "fetch"
    /\ \/ /\ \E choice \in [1..Len(id_list) -> PipelineTitles \X PipelineBodies] :
                records' = [k \in 1..Len(id_list) |->
                               PipelineRecord(id_list[k], choice[k][1], choice[k][2])]
          /\ pc' = "transform"
          /\ df' = EmptyDataFrame
          /\ i' = 1
          /\ err' = err
       \/ /\ pc' = "raised"
          /\ err' = <<"EntrezError", "efetch">>
          /\ UNCHANGED <<records, df, i>>
    /\ UNCHANGED <<id_list, ret, exported, dirExists, files, pubdate, date>>

TransformRecord ==
    /\ pc = "transform"
    /\ i <= Len(records)
    /\ LET record == records[i]
           missing == FirstMissingKey(record)
       IN \/ /\ missing # None
             /\ pc' = "raised"
             /\ err' = <<"KeyError", missing>>
             /\ UNCHANGED <<df, i>>
          \/ /\ missing = None
             /\ \E order \in AffiliationOrders(CollectAffiliations(
                                 record["MedlineCitation"]["Article"]["AuthorList"])) :
                    df' = Concat(df, NewRowFrame(RowOf(record, order)))
             /\ i' = i + 1
             /\ UNCHANGED <<pc, err>>
    /\ UNCHANGED <<id_list, records, ret, exported, dirExists, files, pubdate, date>>

ExportOutcome_always_returns(outcome, d) == d

ExportOutcome(outcome, d) == IF outcome = "ok" THEN d ELSE Unbound

ExportDataframe ==
    /\ pc = "transform"
    /\ i > Len(records)
    /\ \/ /\ dirExists' = TRUE
          /\ \E now \in Timestamps : files' = WriteFile(files, now \o CsvExt, ToCsv(df))
          /\ ret' = ExportOutcome("ok", df)
          /\ exported' = "ok"
          /\ pc' = "render"
          /\ i' = 1
          /\ err' = err
       \/ /\ ~dirExists
          /\ ret' = ExportOutcome("makedirs", df)
          /\ exported' = "failed"
          /\ pc' = "raised"
          /\ err' = <<"OSError", "makedirs">>
          /\ UNCHANGED <<dirExists, files, i>>
       \/ /\ dirExists' = TRUE
          /\ ret' = ExportOutcome("to_csv", df)
          /\ exported' = "failed"
          /\ pc' = "raised"
          /\ err' = <<"OSError", "to_csv">>
          /\ UNCHANGED <<files, i>>
    /\ UNCHANGED <<id_list, records, df, pubdate, date>>

RenderRow ==
    /\ pc = "render"
    /\ i <= Len(ret.rows)
    /\ \/ /\ dirExists
          /\ files' = WriteFile(files, MdFilename(ret.rows[i]["Title"]), MdFile(ret.rows[i]))
          /\ i' = i + 1
          /\ UNCHANGED <<pc, err>>
       \/ /\ pc' = "raised"
          /\ err' = <<"OSError", "open">>
          /\ UNCHANGED <<files, i>>
    /\ UNCHANGED <<id_list, records, df, ret, exported, dirExists, pubdate, date>>

FinishRender ==
    /\ pc = "render"
    /\ i > Len(ret.rows)
    /\ pc' = "done"
    /\ UNCHANGED <<id_list, records, df, i, ret, err, exported, dirExists, files,
                   pubdate, date>>

Init ==
    /\ pc = "search"
    /\ id_list = <<>>
    /\ records = <<>>
    /\ df = EmptyDataFrame
    /\ i = 0
    /\ ret = Unbound
    /\ err = None
    /\ exported = "pending"
    /\ dirExists \in BOOLEAN
    /\ files = EmptyDict
    /\ pubdate = EmptyDict
    /\ date = None

Next ==
    \/ FetchPubmedData
    \/ FetchArticleDetails
    \/ TransformRecord
    \/ ExportDataframe
    \/ RenderRow
    \/ FinishRender

Spec == Init /\ [][Next]_vars

(* create_publication_dataframe called on one record of the endpoint       *)
InitTransform ==
    /\ pc = "transform"
    /\ id_list = <<>>
    /\ \E r \in TransformRecords : records = <<r>>
    /\ df = EmptyDataFrame
    /\ i = 1
    /\ ret = Unbound
    /\ err = None
    /\ exported = "pending"
    /\ dirExists \in BOOLEAN
    /\ files = EmptyDict
    /\ pubdate = EmptyDict
    /\ date = None

NextTransform == TransformRecord \/ ExportDataframe

SpecTransform == InitTransform /\ [][NextTransform]_vars

(* create_publication_markdown called on a dataset of one row              *)
TitleChars == {"B", "u", "7", " ", "\t", "U+00A0", ":", "!", "_", "U+00E9"}

RenderTitles == {TitleA} \cup UNION {[1..n -> TitleChars] : n \in 0..MaxTitleLen}

RenderRowOf(title) ==
    [PMID |-> <<"1">>, Title |-> title, Abstract |-> EmptyStr,
     Authors |-> <<"D","o","e"," ","J">>, Journal |-> JournalTitle,
     Keywords |-> EmptyStr, URL |-> UrlOf(<<"1">>), Affiliations |-> EmptyStr]

InitRender ==
    /\ pc = "render"
    /\ id_list = <<>>
    /\ records = <<>>
    /\ \E t \in RenderTitles : df = NewRowFrame(RenderRowOf(t))
    /\ ret = df
    /\ i = 1
    /\ err = None
    /\ exported = "ok"
    /\ dirExists = TRUE
    /\ files = EmptyDict
    /\ pubdate = EmptyDict
    /\ date = None

NextRender == RenderRow \/ FinishRender

SpecRender == InitRender /\ [][NextRender]_vars

(* ------------------------------- claims -------------------------------- *)

(* C1: a dataset returned for N records has exactly N rows and the k-th   *)
(* row carries the PMID and Title of the k-th record; while the loop runs *)
(* the dataset holds one row per record already visited.                  *)
C1_RowsInOrder ==
    /\ pc = "transform" => Len(df.rows) = i - 1
    /\ exported = "ok" =>
          /\ Len(ret.rows) = Len(records)
          /\ \A k \in 1..Len(records) :
                /\ ret.rows[k]["PMID"] = records[k]["MedlineCitation"]["PMID"]
                /\ ret.rows[k]["Title"] =
                       records[k]["MedlineCitation"]["Article"]["ArticleTitle"]

C1_Witness ==
    /\ exported = "ok"
    /\ Len(records) = 2
    /\ Len(ret.rows) = 2
    /\ ret.rows[1]["PMID"] = <<"2">>
    /\ ret.rows[2]["PMID"] = <<"1">>
    /\ ret.rows[1]["Title"] # ret.rows[2]["Title"]

C2_RequiredPresent(record) ==
    /\ "PMID" \in DOMAIN record["MedlineCitation"]
    /\ "Article" \in DOMAIN record["MedlineCitation"]
    /\ "ArticleTitle" \in DOMAIN record["MedlineCitation"]["Article"]
    /\ "Journal" \in DOMAIN record["MedlineCitation"]["Article"]
    /\ "Title" \in DOMAIN record["MedlineCitation"]["Article"]["Journal"]

(* C2: the per-record body of create_publication_dataframe raises only    *)
(* for a record that lacks required structure (PMID, Article,             *)
(* ArticleTitle, Journal Title); absent optional keys, the author list    *)
(* included, never make it raise.                                         *)
C2_OptionalNeverRaises ==
    (pc = "raised" /\ exported = "pending") => ~C2_RequiredPresent(records[i])

RECURSIVE C4_Expected(_)
C4_Expected(authorList) ==
    IF authorList = <<>> THEN <<>>
    ELSE (IF "LastName" \in DOMAIN Head(authorList)
             THEN Head(authorList)["LastName"] ELSE <<>>)
         \o <<" ">>
         \o (IF "ForeName" \in DOMAIN Head(authorList)
                THEN Head(authorList)["ForeName"] ELSE <<>>)
         \o (IF Tail(authorList) = <<>> THEN <<>>
             ELSE <<",", " ">> \o C4_Expected(Tail(authorList)))

(* C4: the row's Authors is the ", " join of "LastName ForeName" over the *)
(* authors in author-list order (an absent name part is empty), and is    *)
(* the empty string for an empty author list.                             *)
C4_AuthorsJoin ==
    Len(df.rows) = 1 =>
        LET authorList == records[1]["MedlineCitation"]["Article"]["AuthorList"] IN
        /\ df.rows[1]["Authors"] = C4_Expected(authorList)
        /\ authorList = <<>> => df.rows[1]["Authors"] = <<>>

C4_Witness ==
    /\ Len(df.rows) = 1
    /\ LET authorList == records[1]["MedlineCitation"]["Article"]["AuthorList"] IN
          /\ Len(authorList) = 2
          /\ \A k \in 1..2 : {"LastName", "ForeName"} \subseteq DOMAIN authorList[k]
          /\ authorList[1]["LastName"] = <<"D","o","e">>
          /\ authorList[1]["ForeName"] = <<"J">>
          /\ authorList[2]["LastName"] = <<"R","o","e">>
          /\ authorList[2]["ForeName"] = <<"A">>
    /\ df.rows[1]["Authors"] = <<"D","o","e"," ","J",","," ","R","o","e"," ","A">>

C5_NoAffiliationEntry(authorList) ==
    \A k \in 1..Len(authorList) :
        \/ "AffiliationInfo" \notin DOMAIN authorList[k]
        \/ Len(authorList[k]["AffiliationInfo"]) = 0

(* C5: in a row, Abstract is "" when the Article has no Abstract,         *)
(* Keywords is "" when the record has no MeshHeadingList, Affiliations is *)
(* "" when no author carries an affiliation entry; PMID, Title, Journal,  *)
(* URL and Authors are what the record gives whichever of these are       *)
(* absent.                                                                *)
C5_EmptyDefaults ==
    Len(df.rows) = 1 =>
        LET medline == records[1]["MedlineCitation"]
            article == medline["Article"]
            row     == df.rows[1]
        IN /\ "Abstract" \notin DOMAIN article => row["Abstract"] = <<>>
           /\ "MeshHeadingList" \notin DOMAIN medline => row["Keywords"] = <<>>
           /\ C5_NoAffiliationEntry(article["AuthorList"]) => row["Affiliations"] = <<>>
           /\ row["PMID"] = medline["PMID"]
           /\ row["Title"] = article["ArticleTitle"]
           /\ row["Journal"] = article["Journal"]["Title"]
           /\ row["URL"] = UrlPrefix \o medline["PMID"]
           /\ row["Authors"] = C4_Expected(article["AuthorList"])

C5_Witness ==
    /\ Len(df.rows) = 1
    /\ "Abstract" \notin DOMAIN records[1]["MedlineCitation"]["Article"]
    /\ "MeshHeadingList" \notin DOMAIN records[1]["MedlineCitation"]
    /\ Len(records[1]["MedlineCitation"]["Article"]["AuthorList"]) = 2
    /\ C5_NoAffiliationEntry(records[1]["MedlineCitation"]["Article"]["AuthorList"])
    /\ df.rows[1]["Abstract"] = <<>>
    /\ df.rows[1]["Keywords"] = <<>>
    /\ df.rows[1]["Affiliations"] = <<>>
    /\ df.rows[1]["Authors"] # <<>>

C6_FirstAffiliations(authorList) ==
    {authorList[k]["AffiliationInfo"][1]["Affiliation"] :
        k \in {j \in 1..Len(authorList) :
                  /\ "AffiliationInfo" \in DOMAIN authorList[j]
                  /\ Len(authorList[j]["AffiliationInfo"]) > 0}}

(* C6: the row's Affiliations is the "; " join of the distinct first      *)
(* affiliation strings of the authors, each exactly once, in some order;  *)
(* the number of joined entries is the number of distinct strings.        *)
C6_AffiliationsDeduplicated ==
    Len(df.rows) = 1 =>
        LET distinct ==
                C6_FirstAffiliations(records[1]["MedlineCitation"]["Article"]["AuthorList"])
            joined == df.rows[1]["Affiliations"]
        IN /\ \E o \in [1..Cardinality(distinct) -> distinct] :
                 /\ \A a \in distinct : \E k \in 1..Cardinality(distinct) : o[k] = a
                 /\ joined = Join(<<";", " ">>, o)
           /\ distinct # {} => Len(Split(joined, <<";", " ">>)) = Cardinality(distinct)
           /\ distinct = {} => joined = <<>>

C6_Witness ==
    /\ Len(df.rows) = 1
    /\ LET authorList == records[1]["MedlineCitation"]["Article"]["AuthorList"] IN
          /\ Len(authorList) = 2
          /\ \A k \in 1..2 :
                /\ "AffiliationInfo" \in DOMAIN authorList[k]
                /\ Len(authorList[k]["AffiliationInfo"]) = 1
                /\ authorList[k]["AffiliationInfo"][1]["Affiliation"] = UnivA
    /\ df.rows[1]["Affiliations"] = <<"U","n","i","v"," ","A">>

(* C7: the document of a row is named by the Title with every character   *)
(* that is not an ASCII letter, a digit or whitespace removed, the others  *)
(* kept in order, followed by ".md".                                       *)
C7_Filename ==
    (pc \in {"render", "done"} /\ i = 2 /\ Len(ret.rows) = 1) =>
        DOMAIN files =
            {SelectSeq(ret.rows[1]["Title"],
                       LAMBDA c : c \in AsciiLetters \cup AsciiDigits \cup Whitespace)
             \o <<".","m","d">>}

C7_Witness ==
    /\ pc = "done"
    /\ Len(ret.rows) = 1
    /\ ret.rows[1]["Title"] =
          <<"B","u","r","n"," ","P","a","t","i","e","n","t","s",":"," ","A"," ",
            "R","e","v","i","e","w","!">>
    /\ DOMAIN files =
          {<<"B","u","r","n"," ","P","a","t","i","e","n","t","s"," ","A"," ",
             "R","e","v","i","e","w",".","m","d">>}

C8_Documents == {f \in DOMAIN files : files[f].kind = "md"}

(* C8: when rendering has completed, the output directory holds exactly   *)
(* one document per distinct sanitized title, and the content of each is  *)
(* the rendering of the last row of the dataset with that sanitized title.*)
C8_LastRowWins ==
    pc = "done" =>
        /\ C8_Documents = {MdFilename(ret.rows[k]["Title"]) : k \in 1..Len(ret.rows)}
        /\ Cardinality(C8_Documents) =
              Cardinality({Sanitize(ret.rows[k]["Title"]) : k \in 1..Len(ret.rows)})
        /\ \A k \in 1..Len(ret.rows) :
              (\A j \in (k + 1)..Len(ret.rows) :
                  Sanitize(ret.rows[j]["Title"]) # Sanitize(ret.rows[k]["Title"]))
              => files[MdFilename(ret.rows[k]["Title"])].text = MarkdownContent(ret.rows[k])

C8_Witness ==
    /\ pc = "done"
    /\ Len(ret.rows) = 2
    /\ ret.rows[1]["Title"] = TitleA
    /\ ret.rows[2]["Title"] = TitleB
    /\ ret.rows[1]["PMID"] # ret.rows[2]["PMID"]
    /\ Cardinality(C8_Documents) = 1
    /\ files[MdFilename(TitleA)].text = MarkdownContent(ret.rows[2])
    /\ files[MdFilename(TitleA)].text # MarkdownContent(ret.rows[1])

(* C9: when Search returned no identifier and the export was done, the    *)
(* tabular file has the header row PMID, Title, Abstract, Authors,        *)
(* Journal, Keywords, URL, Affiliations and no data row, and a completed  *)
(* run has written no document.                                           *)
C9_HeaderOnlyExport ==
    /\ (Len(id_list) = 0 /\ exported = "ok") =>
          \E f \in DOMAIN files :
              /\ files[f].kind = "csv"
              /\ files[f].header = <<"PMID", "Title", "Abstract", "Authors", "Journal",
                                     "Keywords", "URL", "Affiliations">>
              /\ Len(files[f].data) = 0
    /\ (Len(id_list) = 0 /\ pc = "done") => C8_Documents = {}

(* C10 (as stated): once the export has been attempted, successfully or   *)
(* not, the caller holds the dataset of all N rows.                       *)
C10_Original ==
    exported # "pending" => (ret = df /\ Len(ret.rows) = Len(records))

(* C10 (amended): after a successful export the caller holds the dataset  *)
(* of all N rows; when creating the directory or writing the file fails,  *)
(* the OSError propagates and the caller receives no dataset.             *)
C10_ReturnsOnlyOnSuccess ==
    /\ exported = "ok" => (ret = df /\ Len(ret.rows) = Len(records))
    /\ exported = "failed" =>
          (ret = Unbound /\ pc = "raised" /\ err[1] = "OSError"
           /\ Len(df.rows) = Len(records))

C10_Witness ==
    /\ exported = "failed"
    /\ Len(df.rows) = 2
    /\ ret = Unbound

====
